---------------------------- MODULE Spec2Model ----------------------------
(***************************************************************************)
(* Model of the CDCDataCollector repository.                               *)
(*                                                                         *)
(*  - chiara_upload.py: the batch Controller (main), the Row Processor     *)
(*    (process_single_row) and the publish sub-workflow                    *)
(*    (publish_workspace).                                                 *)
(*  - main.py: the collector's per-row processing (process_row) and the    *)
(*    output-store upsert (update_output_data).                            *)
(*                                                                         *)
(* Specifications:                                                         *)
(*   Spec            the uploader as assembled: main drives                *)
(*                   process_single_row, which drives publish_workspace.   *)
(*   SpecController  main alone, with process_single_row replaced by the   *)
(*                   interface main's handlers are written against: the    *)
(*                   call returns or raises BatchRestartException.         *)
(*   SpecCollector   main.py: process_row and update_output_data on the    *)
(*                   output store.                                         *)
(*   SpecRows        parse_arguments: the parsing of --rows.               *)
(*   SpecCsv         update_csv_workspace_id on the source CSV.            *)
(*   SpecPipeline    fill_project_forms, step by step.                     *)
(*   SpecKeywords    the keyword step of fill_project_forms, token by      *)
(*                   token.                                                *)
(***************************************************************************)
EXTENDS Integers, Sequences, FiniteSets, TLC

(***************************************************************************)
(* Bounds of the model.                                                    *)
(***************************************************************************)
\* largest --end-row explored (two batches need more than batch_size rows)
MaxEndRow == 6
\* --start-row values explored are 1..MaxStartRow
MaxStartRow == 1

(***************************************************************************)
(* Program constants.                                                      *)
(***************************************************************************)
\* chiara_upload.py:1788
batch_size == 5

NONE == "None"

VARIABLES
    \* ---- chiara_upload.py: main ----
    args,                 \* parsed command line (publish_mode, verbose, ...)
    rows_to_process,      \* the work list
    batches,              \* the mutable list of batches
    batch_index,          \* 1-based index of the batch being run (0 before the loop)
    row_index_in_batch,   \* 1-based index of the row being run in the batch
    cpc,                  \* position of main
    open_sessions,        \* number of browser sessions currently open
    calls,                \* history: <<row, how the invocation ended>>
    csv_writable,         \* whether the source CSV can be written when main starts
    session,              \* the session of the current batch: sign-in, prompt, rows
    \* ---- chiara_upload.py: process_single_row / publish_workspace ----
    rpc,                  \* position of process_single_row
    current_row,
    row_errors,
    row_warnings,
    workspace_id,
    source_url,
    publish_success,
    attempt,              \* publish_workspace: loop variable of range(2)
    events,               \* publish_workspace: what it did, in order
    printed,              \* lines process_single_row printed to stdout
    raised,               \* what left process_single_row: NONE or an exception
    workspace_id_str,     \* the datalumos_id cell as read in only-publish mode
    effects,              \* the calls process_single_row made, in order
    \* ---- main.py ----
    output_df,            \* the in-memory output store
    output_file,          \* the persisted output store
    last,                 \* the last process_row / update_output_data call
    \* ---- chiara_upload.py: parse_arguments ----
    rows_items,           \* the numbers and ranges the --rows string was written from
    rows_arg,             \* the --rows string, character by character
    \* ---- chiara_upload.py: update_csv_workspace_id ----
    csv_file,             \* the datalumos_id column of the source CSV, row by row
    update_call,          \* the arguments row_number and workspace_id
    retry_count,
    upc,                  \* position of update_csv_workspace_id
    update_log,           \* write attempts, prompts and messages, in order
    \* ---- chiara_upload.py: fill_project_forms ----
    datadict,             \* the record of the row
    fpc,                  \* position of fill_project_forms
    form_workspace_id,    \* the local workspace_id of fill_project_forms
    steps,                \* what the pipeline did, in order
    form_result,          \* how fill_project_forms ended
    \* ---- chiara_upload.py: fill_project_forms, the keyword step ----
    keyword_items,        \* the keywords the first cell was written from
    keywordcells,         \* the three keyword cells, character by character
    keywords_to_insert,   \* the list the cells are split into
    kpc,                  \* position of the keyword step
    keyword_log           \* what the loop did with each element of the list

ctlVars == <<args, rows_to_process, batches, batch_index, row_index_in_batch, cpc, open_sessions,
             calls, csv_writable, session>>
rowVars == <<rpc, current_row, row_errors, row_warnings, workspace_id, source_url,
             publish_success, attempt, events, printed, raised, workspace_id_str, effects>>
colVars == <<output_df, output_file, last>>
argVars == <<rows_items, rows_arg>>
csvVars == <<csv_file, update_call, retry_count, upc, update_log>>
formVars == <<datadict, fpc, form_workspace_id, steps, form_result>>
kwVars == <<keyword_items, keywordcells, keywords_to_insert, kpc, keyword_log>>
auxVars == <<argVars, csvVars, formVars, kwVars>>
vars == <<ctlVars, rowVars, colVars, auxVars>>

(***************************************************************************)
(* Python helpers.                                                         *)
(***************************************************************************)
\* list(range(a, b + 1))
Range(a, b) == [i \in 1..(IF b >= a THEN b - a + 1 ELSE 0) |-> a + i - 1]

\* s[i:] for a 0-based slice start i
SliceFrom(s, i) == IF i >= Len(s) THEN <<>> ELSE SubSeq(s, i + 1, Len(s))

\* s[i:i + n]
Slice(s, i, n) == SubSeq(s, i + 1, IF i + n <= Len(s) THEN i + n ELSE Len(s))

\* list.insert(i, x) for 0 <= i <= len
InsertAt(s, i, x) == SubSeq(s, 1, i) \o <<x>> \o SliceFrom(s, i)

\* chiara_upload.py:1789
\* [rows[i:i + batch_size] for i in range(0, len(rows), batch_size)]
SplitBatches(rows) ==
    [b \in 1..((Len(rows) + batch_size - 1) \div batch_size) |->
        Slice(rows, (b - 1) * batch_size, batch_size)]

\* the elements of a sequence
Elems(s) == {s[i] : i \in 1..Len(s)}

(***************************************************************************)
(* chiara_upload.py: exceptions.                                           *)
(***************************************************************************)
BRE == "BatchRestartException"

\* chiara_upload.py:55  class BatchRestartException(Exception)
\* the classes an `except Exception` clause catches
ExceptionSubclasses == {"Exception", "TimeoutException", "ValueError", BRE}

\* Python truthiness of a workspace id or URL (None and "" are falsy)
Truthy(v) == v \notin {NONE, ""}

(***************************************************************************)
(* chiara_upload.py: main (the Controller).                                *)
(***************************************************************************)
PublishModes == {"default", "no-publish", "only-publish"}

\* parse_arguments: the settings the run is started with
ArgsSet == [publish_mode : PublishModes,
            verbose      : BOOLEAN,
            google       : BOOLEAN,   \* --google-sheet-id and --google-credentials given
            email        : BOOLEAN,   \* --GWDA-email or --username given
            start_row    : 1..MaxStartRow,
            end_row      : 1..MaxEndRow]

\* main, lines 1777-1785: rows_to_process from --start-row / --end-row
RowsToProcess(start_row, end_row) == Range(start_row, end_row)

batch_rows == batches[batch_index]

\* main, line 1822
batch_num == (batch_index - 1) * batch_size + row_index_in_batch

\* main, line 1835: remaining_rows = batch_rows[row_index_in_batch:]
RemainingRows(rows, k) == SliceFrom(rows, k)

RowIdle ==
    /\ rpc = "idle" /\ current_row = 0 /\ row_errors = <<>> /\ row_warnings = <<>>
    /\ workspace_id = NONE /\ source_url = NONE /\ publish_success = FALSE
    /\ attempt = 0 /\ events = <<>> /\ printed = <<>> /\ raised = NONE
    /\ workspace_id_str = NONE /\ effects = <<>>

ArgsIdle == rows_items = <<>> /\ rows_arg = <<>>

CsvIdle ==
    /\ csv_file = <<>> /\ update_call = [row_number |-> 0, workspace_id |-> NONE]
    /\ retry_count = 0 /\ upc = "idle" /\ update_log = <<>>

FormIdle ==
    /\ datadict = [f \in {} |-> ""] /\ fpc = "idle" /\ form_workspace_id = NONE
    /\ steps = <<>> /\ form_result = NONE

KeywordsIdle ==
    /\ keyword_items = <<>> /\ keywordcells = <<>> /\ keywords_to_insert = <<>>
    /\ kpc = "idle" /\ keyword_log = <<>>

AuxIdle == ArgsIdle /\ CsvIdle /\ FormIdle /\ KeywordsIdle

CollectorIdle ==
    /\ output_df = [cols |-> <<>>, rows |-> <<>>]
    /\ output_file = [cols |-> <<>>, rows |-> <<>>]
    /\ last = [op |-> "none", n |-> 0]

\* no browser was opened and no sign-in was attempted
NoSession == [batch |-> 0, signins |-> 0, result |-> NONE, prompts |-> 0,
              rows |-> <<>>, closed |-> NONE]

\* main, line 1763: the arguments are parsed; the CSV file is writable or not
InitController ==
    /\ args \in ArgsSet
    /\ csv_writable \in BOOLEAN
    /\ rows_to_process = <<>>
    /\ batches = <<>>
    /\ batch_index = 0
    /\ row_index_in_batch = 0
    /\ cpc = "check"
    /\ open_sessions = 0
    /\ calls = <<>>
    /\ session = NoSession
    /\ RowIdle

\* main is not running
ControllerIdle ==
    /\ args = [publish_mode |-> "default", verbose |-> FALSE, google |-> FALSE, email |-> FALSE,
               start_row |-> 1, end_row |-> 1]
    /\ csv_writable = TRUE
    /\ session = NoSession
    /\ rows_to_process = <<>>
    /\ batches = <<>>
    /\ batch_index = 0
    /\ row_index_in_batch = 0
    /\ cpc = "idle"
    /\ open_sessions = 0
    /\ calls = <<>>
    /\ RowIdle

\* AfterWritabilityCheck that goes on whatever the check said
AfterWritabilityCheck_Ignored(writable) == "next"

\* main, lines 1769-1775: `return` when check_csv_writability reports failure
AfterWritabilityCheck(writable) == IF writable THEN "next" ELSE "aborted"

\* main, lines 1765-1794: the writability check, then the work list and its
\* split into batches
CheckCsvWritability ==
    /\ cpc = "check"
    /\ cpc' = AfterWritabilityCheck(csv_writable)
    /\ IF cpc' = "next"
         THEN /\ rows_to_process' = RowsToProcess(args.start_row, args.end_row)
              /\ batches' = SplitBatches(rows_to_process')
         ELSE UNCHANGED <<rows_to_process, batches>>
    /\ UNCHANGED <<args, batch_index, row_index_in_batch, open_sessions, calls, csv_writable,
                   session, rowVars>>
    /\ UNCHANGED <<colVars, auxVars>>

\* SignInFailurePrompts without the prompt
SignInFailurePrompts_None(signin_success) == 0

\* main, lines 1811-1816: after a failed sign-in the operator is asked to
\* log in by hand and to press Enter; the number of prompts
SignInFailurePrompts(signin_success) == IF ~signin_success THEN 1 ELSE 0

\* Quit that leaves the browser open
Quit_LeavesOpen(n) == n

\* mydriver.quit(), lines 1830, 1844, 1862, 1875: the session is closed
Quit(n) == n - 1

\* main, lines 1796-1820 and the handler at 1866-1877: the next batch is taken
\* from the list, a browser is opened and one sign-in attempt is made.
\* e is what the environment does: initialize_browser raises, or the
\* sign-in succeeds, or it fails and the operator confirms at the prompt.
StartBatch(e) ==
    /\ cpc = "next"
    /\ batch_index < Len(batches)
    /\ batch_index' = batch_index + 1
    /\ row_index_in_batch' = 0
    /\ IF e = "browser_error"
         THEN \* mydriver is None: the handler has nothing to quit
              /\ cpc' = "next"
              /\ open_sessions' = open_sessions
              /\ session' = [NoSession EXCEPT !.batch = batch_index + 1]
         ELSE /\ cpc' = "rows"
              /\ open_sessions' = open_sessions + 1
              /\ session' = [batch   |-> batch_index + 1,
                             signins |-> 1,
                             result  |-> IF e = "signin_ok" THEN "ok" ELSE "failed",
                             prompts |-> SignInFailurePrompts(e = "signin_ok"),
                             rows    |-> <<>>,
                             closed  |-> NONE]
    /\ UNCHANGED <<args, rows_to_process, batches, calls, csv_writable, rowVars>>
    /\ UNCHANGED <<colVars, auxVars>>

\* main, lines 1821-1824: the inner loop takes the next row and calls
\* process_single_row, whose locals are initialised at 1585-1588.
CallRow ==
    /\ cpc = "rows"
    /\ row_index_in_batch < Len(batch_rows)
    /\ row_index_in_batch' = row_index_in_batch + 1
    /\ current_row' = batch_rows[row_index_in_batch + 1]
    /\ cpc' = "in_row"
    /\ rpc' = "read"
    /\ row_errors' = <<>>
    /\ row_warnings' = <<>>
    /\ workspace_id' = NONE
    /\ source_url' = NONE
    /\ publish_success' = FALSE
    /\ attempt' = 0
    /\ events' = <<>>
    /\ printed' = <<>>
    /\ raised' = NONE
    /\ workspace_id_str' = NONE
    /\ effects' = <<>>
    /\ session' = [session EXCEPT !.rows = Append(@, batch_rows[row_index_in_batch + 1])]
    /\ UNCHANGED <<args, rows_to_process, batches, batch_index, open_sessions, calls,
                   csv_writable>>
    /\ UNCHANGED <<colVars, auxVars>>

\* main, lines 1824-1853 and 1866-1877: process_single_row has returned or
\* raised.  On BatchRestartException the browser is closed, the rows after
\* position row_index_in_batch are inserted as a new batch at list position
\* batch_index and the outer loop continues.
AfterRow ==
    /\ cpc = "in_row"
    /\ rpc = "returned"
    /\ calls' = Append(calls, <<current_row, raised>>)
    \* the locals of process_single_row end with the call
    /\ rpc' = "idle" /\ current_row' = 0 /\ row_errors' = <<>> /\ row_warnings' = <<>>
    /\ workspace_id' = NONE /\ source_url' = NONE /\ publish_success' = FALSE
    /\ attempt' = 0 /\ events' = <<>> /\ printed' = <<>> /\ raised' = NONE
    /\ workspace_id_str' = NONE /\ effects' = <<>>
    /\ IF raised = BRE
         THEN LET remaining_rows == RemainingRows(batch_rows, row_index_in_batch) IN
              /\ open_sessions' = Quit(open_sessions)
              /\ session' = [session EXCEPT !.closed = "restart"]
              /\ batches' = IF remaining_rows # <<>>
                              THEN InsertAt(batches, batch_index, remaining_rows)
                              ELSE batches
              /\ cpc' = "next"
         ELSE IF raised # NONE
         THEN \* any other exception: handler at 1866 closes the browser
              /\ open_sessions' = Quit(open_sessions)
              /\ session' = [session EXCEPT !.closed = "error"]
              /\ batches' = batches
              /\ cpc' = "next"
         ELSE /\ open_sessions' = open_sessions
              /\ session' = session
              /\ batches' = batches
              /\ cpc' = "rows"
    /\ UNCHANGED <<args, rows_to_process, batch_index, row_index_in_batch, csv_writable>>
    /\ UNCHANGED <<colVars, auxVars>>

\* main, lines 1840-1845 and 1866-1877: the batch ended without a restart,
\* close the browser.  q is what the first mydriver.quit() does: when it
\* raises, the handler at 1866 calls quit() again and ignores what that raises.
EndBatch(q) ==
    /\ cpc = "rows"
    /\ row_index_in_batch = Len(batch_rows)
    /\ open_sessions' = Quit(open_sessions)
    /\ session' = [session EXCEPT !.closed = IF q = "ok" THEN "normal" ELSE "error"]
    /\ cpc' = "next"
    /\ UNCHANGED <<args, rows_to_process, batches, batch_index, row_index_in_batch, calls,
                   csv_writable, rowVars>>
    /\ UNCHANGED <<colVars, auxVars>>

\* main, lines 1879-1882: the batch list is exhausted, "All Batches Complete"
Finish ==
    /\ cpc = "next"
    /\ batch_index = Len(batches)
    /\ cpc' = "done"
    /\ UNCHANGED <<args, rows_to_process, batches, batch_index, row_index_in_batch, open_sessions,
                   calls, csv_writable, session, rowVars>>
    /\ UNCHANGED <<colVars, auxVars>>

\* The interface of process_single_row that main is written against
\* (try at 1823, handler at 1825): the call returns, or it raises
\* BatchRestartException.
RowProcessorInterface(r) ==
    /\ cpc = "in_row"
    /\ rpc = "read"
    /\ rpc' = "returned"
    /\ raised' = r
    /\ UNCHANGED <<ctlVars, current_row, row_errors, row_warnings, workspace_id,
                   source_url, publish_success, attempt, events, printed,
                   workspace_id_str, effects>>
    /\ UNCHANGED <<colVars, auxVars>>

NextController ==
    \/ CheckCsvWritability
    \/ \E e \in {"browser_error", "signin_ok", "signin_failed"} : StartBatch(e)
    \/ CallRow
    \/ \E r \in {NONE, BRE} : RowProcessorInterface(r)
    \/ AfterRow
    \/ \E q \in {"ok", "raise"} : EndBatch(q)
    \/ Finish

\* main, lines 1760-1763: the state when main has parsed its arguments
Init == InitController /\ CollectorIdle /\ AuxIdle

SpecController == Init /\ [][NextController]_vars

(***************************************************************************)
(* chiara_upload.py: publish_workspace.                                    *)
(***************************************************************************)
\* What the page does during one publish attempt: how far the attempt gets
\* and what the inline error element #errormsg holds when it is looked at.
\*   fail_click      "Publish Project" never becomes clickable  (1352)
\*   review_timeout  the wait for the reviewPublish page times out (1361)
\*   fail_dialog     a later button or dialog control raises   (1383-1437)
\*   return_timeout  the wait for the workspace page times out (1440)
\*   returned        the browser is back on the workspace page (1443)
Pages == [at       : {"fail_click", "review_timeout", "fail_dialog",
                      "return_timeout", "returned"},
          errormsg : {"absent", "empty", "text"}]

\* publish_workspace, lines 1349-1457: the body of the try block of one
\* attempt.  The result is "ok" (return True, None) or the exception raised.
PublishAttempt(page) ==
    CASE page.at = "fail_click"     -> "TimeoutException"
      [] page.at = "review_timeout" ->
            \* lines 1366-1379
            IF page.errormsg = "text" THEN BRE ELSE "TimeoutException"
      [] page.at = "fail_dialog"    -> "Exception"
      [] page.at = "return_timeout" -> "TimeoutException"
      [] page.at = "returned"       ->
            \* lines 1445-1457
            IF page.errormsg = "text" THEN BRE ELSE "ok"

\* publish_workspace, line 1459: `except Exception as e` around the attempt
PublishCatches(exc) == exc \in ExceptionSubclasses

\* publish_workspace, line 1342: for attempt in range(2)
PublishAttempts == 2

\* RetryDelay without the sleep
RetryDelay_None(n) == <<>>

\* publish_workspace, lines 1343-1347: the delay before a retry
RetryDelay(n) == IF n > 0 THEN <<[kind |-> "sleep", n |-> n, at |-> NONE, result |-> NONE]>>
                          ELSE <<>>

(***************************************************************************)
(* chiara_upload.py: process_single_row (the Row Processor).               *)
(***************************************************************************)
\* rows of the source CSV as read_csv_line returns them
SourceUrls == {"", "http://u"}
DatalumosIds == {"", " ", "123", "123.0", "abc", "inf"}
DataDicts == [url : SourceUrls, datalumos_id : DatalumosIds]

\* str.strip()
Strip(str) == IF str = " " THEN "" ELSE str

\* int(float(s)), line 1614: the number (written in decimal), or the
\* exception raised (float("inf") is a float that int() refuses)
IntFloat(str) ==
    CASE str = "123"   -> "123"
      [] str = "123.0" -> "123"
      [] str = "inf"   -> "OverflowError"
      [] OTHER         -> "ValueError"

\* OnlyPublishId without the checks of the id
OnlyPublishId_Unchecked(str) == "ok"

\* process_single_row, lines 1601-1623: what only-publish mode makes of the
\* stripped datalumos_id cell: an error message and an early return, an
\* exception the `except (ValueError, TypeError)` clause does not catch, or
\* a usable id
OnlyPublishId(str) ==
    IF str = "" THEN "no_workspace_id"
    ELSE CASE IntFloat(str) = "ValueError"    -> "invalid_workspace_id"
           [] IntFloat(str) = "OverflowError" -> "raise"
           [] OTHER                           -> "ok"

Line(kind, ordinal, ws, url) == [kind |-> kind, ordinal |-> ordinal, ws |-> ws, url |-> url]

\* the summary line, lines 1606, 1619, 1719-1721, 1747-1749
SummaryLine(ws, url) ==
    Line("summary", batch_num,
         IF Truthy(ws) THEN ws ELSE "N/A",
         IF url \notin {NONE, ""} THEN url ELSE "N/A")

ErrorLine == Line("error", 0, NONE, NONE)
WarningLine == Line("warning", 0, NONE, NONE)
VerboseLine == Line("verbose", 0, NONE, NONE)

\* one "  ERROR" / "  WARNING" line per recorded entry, lines 1724-1729
DetailLines(errs, warns) ==
    [i \in 1..Len(errs) |-> ErrorLine] \o [i \in 1..Len(warns) |-> WarningLine]

\* process_single_row, lines 1716-1735: the summary line (non-verbose mode)
\* or the detailed completion message (verbose mode)
SummaryOutput(verbose, ws, url, errs, warns) ==
    IF ~verbose THEN <<SummaryLine(ws, url)>> \o DetailLines(errs, warns)
                ELSE <<VerboseLine>>

\* HandlerOutput without the summary line
HandlerOutput_NoSummary(verbose, ws, url) == IF ~verbose THEN <<ErrorLine>> ELSE <<>>

\* process_single_row, lines 1746-1750: what the exception handler prints
\* under the traceback
HandlerOutput(verbose, ws, url) ==
    IF ~verbose THEN <<SummaryLine(ws, url), ErrorLine>> ELSE <<>>

\* process_single_row, lines 1605-1609 and 1618-1622: what the early return
\* of only-publish mode prints
EarlyReturnOutput(verbose, url) ==
    IF ~verbose THEN <<SummaryLine(NONE, url), ErrorLine>> ELSE <<VerboseLine>>

\* AfterPipeline that publishes in every mode
AfterPipeline_AlwaysPublish == "attempt"

\* lines 1639-1645: publish_workspace is entered unless the mode is no-publish
AfterPipeline == IF args.publish_mode # "no-publish" THEN "attempt" ELSE "gsheet"

InRow(pc) == cpc = "in_row" /\ rpc = pc

\* process_single_row, lines 1590-1634: read the record; in only-publish mode
\* take the workspace id from the record and open the workspace.
\* found: the CSV has the row; d is the record, nav whether mydriver.get succeeds.
ReadRow(found, d, nav) ==
    /\ InRow("read")
    /\ IF ~found
         THEN \* read_csv_line raises ValueError (line 389)
              /\ rpc' = "except"
              /\ UNCHANGED <<source_url, workspace_id, row_errors, printed, workspace_id_str>>
         ELSE
         /\ source_url' = d.url
         /\ IF args.publish_mode = "only-publish"
              THEN LET id == OnlyPublishId(Strip(d.datalumos_id)) IN
                   /\ workspace_id_str' = Strip(d.datalumos_id)
                   /\ CASE id \in {"no_workspace_id", "invalid_workspace_id"} ->
                             \* lines 1602-1610 and 1615-1623
                             /\ row_errors' = Append(row_errors, id)
                             /\ printed' = printed \o EarlyReturnOutput(args.verbose, d.url)
                             /\ rpc' = "returned"
                             /\ UNCHANGED workspace_id
                        [] id = "raise" ->
                             \* line 1614 raises past the clause at 1615
                             /\ rpc' = "except"
                             /\ UNCHANGED <<workspace_id, row_errors, printed>>
                        [] id = "ok" ->
                             \* lines 1625-1631
                             /\ workspace_id' = IntFloat(workspace_id_str')
                             /\ rpc' = IF nav THEN AfterPipeline ELSE "except"
                             /\ UNCHANGED <<row_errors, printed>>
              ELSE /\ rpc' = "fill"
                   /\ UNCHANGED <<workspace_id, row_errors, printed, workspace_id_str>>
    /\ UNCHANGED <<ctlVars, current_row, row_warnings, publish_success, attempt,
                   events, raised, effects>>
    /\ UNCHANGED <<colVars, auxVars>>

\* What the form-filling pipeline does in one call:
\*   extracted  the location after project creation held the id (line 663)
\*   exit       it ran to `return workspace_id` (992), left by the bare
\*              `return` of the upload step (962), or raised
\*   warn       it recorded a warning; it always does when the id could not
\*              be extracted and the pipeline went on (lines 666-668)
FillSet == {f \in [extracted : BOOLEAN,
                   exit      : {"return", "bare_return", "raise"},
                   warn      : BOOLEAN] :
               (~f.extracted /\ f.exit # "raise") => f.warn}

\* the id in the location reached after project creation (comment at 649)
NEW_ID == "239181"

\* FillReturn whose bare return hands back the id as well
FillReturn_KeepsId(f) == IF f.extracted THEN NEW_ID ELSE NONE

\* fill_project_forms, lines 962 and 992: the value the call returns
FillReturn(f) == IF f.exit = "return" /\ f.extracted THEN NEW_ID ELSE NONE

\* an entry of the log of calls
Effect(op, res, id) == [op |-> op, res |-> res, id |-> id]

\* AfterFill that goes on with the row when the pipeline raised
AfterFill_GoesOn(exit) == AfterPipeline

\* process_single_row, lines 1590, 1635 and 1737: what fill_project_forms
\* raises leaves the try block for the handler
AfterFill(exit) == IF exit = "raise" THEN "except" ELSE AfterPipeline

\* process_single_row, lines 1632-1635: the call of fill_project_forms
FillForms(f) ==
    /\ InRow("fill")
    /\ row_warnings' = IF f.warn THEN Append(row_warnings, "fill_warning") ELSE row_warnings
    /\ workspace_id' = IF f.exit = "raise" THEN workspace_id ELSE FillReturn(f)
    /\ effects' = Append(effects, Effect("fill", f.exit, IF f.extracted THEN NEW_ID ELSE NONE))
    /\ rpc' = AfterFill(f.exit)
    /\ UNCHANGED <<ctlVars, current_row, row_errors, source_url, publish_success,
                   attempt, events, printed, raised, workspace_id_str>>
    /\ UNCHANGED <<colVars, auxVars>>

\* publish_workspace, lines 1457-1472: what the loop does with the result of
\* attempt n: return (True, None), retry, return (False, error_msg), or let
\* the exception leave the function
PublishOutcome(n, result) ==
    IF result = "ok" THEN "return_true"
    ELSE IF PublishCatches(result)
           THEN IF n = 0 THEN "retry" ELSE "return_false"
           ELSE "propagate"

\* WarningsAfterPublish that also records the failure of the first attempt
WarningsAfterPublish_AnyFailure(warnings, outcome) ==
    IF outcome \in {"return_false", "retry"} THEN Append(warnings, "publish_failed")
                                             ELSE warnings

\* process_single_row, lines 1641-1643: a warning is recorded when
\* publish_workspace reports failure
WarningsAfterPublish(warnings, outcome) ==
    IF outcome = "return_false" THEN Append(warnings, "publish_failed") ELSE warnings

\* publish_workspace, lines 1342-1476, one iteration of the attempt loop, and
\* process_single_row, lines 1641-1643, when the call returns.
PublishStep(page) ==
    /\ InRow("attempt")
    /\ attempt < PublishAttempts
    /\ LET result == PublishAttempt(page)
           outcome == PublishOutcome(attempt, result)
           ev == [kind |-> "attempt", n |-> attempt,
                  at |-> IF result = BRE THEN page.at ELSE NONE, result |-> result]
       IN /\ events' = events \o RetryDelay(attempt) \o <<ev>>
          /\ row_warnings' = WarningsAfterPublish(row_warnings, outcome)
          /\ publish_success' = (outcome = "return_true")
          /\ attempt' = IF outcome = "retry" THEN attempt + 1 ELSE attempt
          /\ raised' = IF outcome = "propagate" THEN result ELSE raised
          /\ rpc' = CASE outcome = "retry"     -> "attempt"
                      [] outcome = "propagate" -> "except"
                      [] OTHER                 -> "gsheet"
    /\ UNCHANGED <<ctlVars, current_row, row_errors, workspace_id, source_url, printed,
                   workspace_id_str, effects>>
    /\ UNCHANGED <<colVars, auxVars>>

\* SheetUpdateDue that does not look at the publish result or at the id
SheetUpdateDue_Configured(a, success, ws) == a.google

\* process_single_row, line 1648: the condition of the registry update
SheetUpdateDue(a, success, ws) == a.google /\ success /\ Truthy(ws)

\* What update_google_sheet does when called (lines 1135-1324):
\*   ok               the row of the sheet was updated, (True, None)
\*   missing_columns  get_column_mapping finds a required column missing; its
\*                    ValueError (1081) is caught by its own `except Exception`
\*                    (1085), it returns None and update_google_sheet returns
\*                    (False, "Failed to get column mapping ...") (1188-1191)
\*   failed           any other (False, error_msg)
\*   ValueError       a ValueError raised in update_google_sheet itself, which
\*                    it re-raises (1309-1311)
SheetResults == {"ok", "missing_columns", "failed", "ValueError"}

\* process_single_row, lines 1661-1664: the row error for a failed update
SheetError(g) == IF g = "missing_columns" THEN "gsheet_no_columns" ELSE "gsheet_failed"

\* process_single_row, lines 1647-1673: the registry update
UpdateSheet(g) ==
    /\ InRow("gsheet")
    /\ IF SheetUpdateDue(args, publish_success, workspace_id)
         THEN /\ effects' = Append(effects, Effect("gsheet", g, workspace_id))
              /\ CASE g = "ok"         -> rpc' = "csv" /\ UNCHANGED row_errors
                   [] g = "ValueError" -> rpc' = "except" /\ UNCHANGED row_errors
                   [] OTHER            -> /\ rpc' = "csv"
                                          /\ row_errors' = Append(row_errors, SheetError(g))
         ELSE g = "ok" /\ rpc' = "csv" /\ UNCHANGED <<row_errors, effects>>
    /\ UNCHANGED <<ctlVars, current_row, row_warnings, workspace_id, source_url,
                   publish_success, attempt, events, printed, raised, workspace_id_str>>
    /\ UNCHANGED <<colVars, auxVars>>

\* What one call of update_csv_workspace_id ends in (lines 478-523):
\*   written    df.to_csv succeeded
\*   abandoned  it returned without having written
\*   raise      an exception left it (the prompt at 513 is outside its try)
CsvResults == {"written", "abandoned", "raise"}

\* process_single_row, lines 1675-1686: write the workspace id to the CSV
UpdateCsv(c) ==
    /\ InRow("csv")
    /\ IF Truthy(workspace_id)
         THEN /\ effects' = Append(effects, Effect("csv", c, workspace_id))
              /\ row_errors' = IF c = "raise" THEN Append(row_errors, "csv_update_failed")
                                             ELSE row_errors
         ELSE c = "written" /\ UNCHANGED <<row_errors, effects>>
    /\ rpc' = "gwda"
    /\ UNCHANGED <<ctlVars, current_row, row_warnings, workspace_id, source_url,
                   publish_success, attempt, events, printed, raised, workspace_id_str>>
    /\ UNCHANGED <<colVars, auxVars>>

\* What nominate_url_to_gwda does when called (line 1697):
\*   ok      (True, None)
\*   failed  (False, gwda_error)
\*   raise   it raises, caught by the `except Exception` at 1708
GwdaResults == {"ok", "failed", "raise"}

\* process_single_row, line 1689: `if source_url:`
NominationDue(url) == Truthy(url)

\* process_single_row, lines 1688-1714: the archival nomination
Nominate(w) ==
    /\ InRow("gwda")
    /\ IF NominationDue(source_url)
         THEN IF ~args.email
                THEN /\ w = "ok"
                     /\ row_warnings' = Append(row_warnings, "gwda_skipped")
                     /\ UNCHANGED effects
                ELSE /\ effects' = Append(effects, Effect("gwda", w, source_url))
                     /\ row_warnings' =
                           CASE w = "ok"     -> row_warnings
                             [] w = "failed" -> Append(row_warnings, "gwda_failed")
                             [] w = "raise"  -> Append(row_warnings, "gwda_error")
         ELSE w = "ok" /\ UNCHANGED <<row_warnings, effects>>
    /\ rpc' = "summary"
    /\ UNCHANGED <<ctlVars, current_row, row_errors, workspace_id, source_url,
                   publish_success, attempt, events, printed, raised, workspace_id_str>>
    /\ UNCHANGED <<colVars, auxVars>>

\* process_single_row, lines 1716-1735
PrintSummary ==
    /\ InRow("summary")
    /\ printed' = printed \o SummaryOutput(args.verbose, workspace_id, source_url,
                                            row_errors, row_warnings)
    /\ rpc' = "returned"
    /\ UNCHANGED <<ctlVars, current_row, row_errors, row_warnings, workspace_id,
                   source_url, publish_success, attempt, events, raised, workspace_id_str,
                   effects>>
    /\ UNCHANGED <<colVars, auxVars>>

\* process_single_row, lines 1737-1757: `except Exception` around the body
RowCatches(exc) == exc \in ExceptionSubclasses

\* c is what the call of update_csv_workspace_id at 1755 ends in; what it
\* raises is dropped by the bare `except: pass`
HandleException(c) ==
    /\ InRow("except")
    /\ IF raised = NONE \/ RowCatches(raised)
         THEN /\ row_errors' = Append(row_errors, "row_error")
              /\ printed' = printed \o HandlerOutput(args.verbose, workspace_id, source_url)
              /\ raised' = NONE
              /\ IF Truthy(workspace_id)
                   THEN effects' = Append(effects, Effect("csv", c, workspace_id))
                   ELSE c = "written" /\ UNCHANGED effects
         ELSE c = "written" /\ UNCHANGED <<row_errors, printed, raised, effects>>
    /\ rpc' = "returned"
    /\ UNCHANGED <<ctlVars, current_row, row_warnings, workspace_id, source_url,
                   publish_success, attempt, events, workspace_id_str>>
    /\ UNCHANGED <<colVars, auxVars>>

ProcessSingleRow ==
    \/ \E found \in BOOLEAN, d \in DataDicts, nav \in BOOLEAN : ReadRow(found, d, nav)
    \/ \E f \in FillSet : FillForms(f)
    \/ \E page \in Pages : PublishStep(page)
    \/ \E g \in SheetResults : UpdateSheet(g)
    \/ \E c \in CsvResults : UpdateCsv(c)
    \/ \E w \in GwdaResults : Nominate(w)
    \/ PrintSummary
    \/ \E c \in CsvResults : HandleException(c)

Next ==
    \/ CheckCsvWritability
    \/ \E e \in {"browser_error", "signin_ok", "signin_failed"} : StartBatch(e)
    \/ CallRow
    \/ ProcessSingleRow
    \/ AfterRow
    \/ \E q \in {"ok", "raise"} : EndBatch(q)
    \/ Finish

Spec == Init /\ [][Next]_vars

(***************************************************************************)
(* chiara_upload.py: update_csv_workspace_id.                              *)
(***************************************************************************)
\* bound: number of data rows of the source CSV
MaxCsvRows == 2

\* chiara_upload.py:487
max_retries == 3

\* the text of a datalumos_id cell in the file
CsvCells == {"", "7", "x"}

\* texts pandas reads as a number, and the way a float64 column prints them
IntTexts == {"7", "123", NEW_ID}
FloatText(c) == IF c \in IntTexts THEN c \o ".0" ELSE c
NumberTexts == IntTexts \cup {FloatText(c) : c \in IntTexts}

\* texts pandas reads as a missing value
NaTexts == {"", "nan"}

\* pd.read_csv followed by astype(str), lines 492-499: the column as strings.
\* A column with a text that is no number is read as it stands; a column of
\* numbers with a missing value or a decimal point is read as float64; a
\* missing value becomes "nan".
ReadAsStr(cells) ==
    LET all == Elems(cells)
        object == \E c \in all : c \notin NumberTexts \cup NaTexts
        float == all \cap NaTexts # {} \/ all \cap (NumberTexts \ IntTexts) # {}
    IN [i \in 1..Len(cells) |->
          IF cells[i] \in NaTexts THEN "nan"
          ELSE IF ~object /\ float THEN FloatText(cells[i])
          ELSE cells[i]]

\* df.loc[row_number - 1, 'datalumos_id'] = str(workspace_id), line 502: the
\* label row_number - 1 is set, and added when the frame has no such row
SetLoc(col, row_number, value) ==
    IF row_number <= Len(col) THEN [col EXCEPT ![row_number] = value]
                              ELSE Append(col, value)

\* update_csv_workspace_id, lines 492-505: the file after a successful attempt
WriteBack(cells, row_number, id) == SetLoc(ReadAsStr(cells), row_number, id)

\* an entry of update_log
Logged(kind, row, id) == [kind |-> kind, row |-> row, id |-> id]

\* AfterLocked that gives up silently after the last attempt
AfterLocked_Silent(n, row, id) ==
    IF n < max_retries THEN <<Logged("retry_warning", 0, NONE)>> ELSE <<>>

\* update_csv_workspace_id, lines 509-517: what is printed after the n-th
\* failed attempt caused by PermissionError, IOError or OSError
AfterLocked(n, row, id) ==
    IF n < max_retries THEN <<Logged("retry_warning", 0, NONE)>>
                       ELSE <<Logged("manual_entry", row, id)>>

\* update_csv_workspace_id, lines 489-523: one iteration of the while loop up
\* to the prompt.  o is what the attempt runs into: nothing, a locked file
\* (PermissionError, IOError, OSError), or any other error.
WriteAttempt(o) ==
    /\ upc = "try"
    /\ retry_count < max_retries
    /\ LET row == update_call.row_number
           id == update_call.workspace_id
       IN CASE o = "ok" ->
                 /\ csv_file' = WriteBack(csv_file, row, id)
                 /\ update_log' = Append(update_log, Logged("written", row, id))
                 /\ upc' = "returned"
                 /\ UNCHANGED retry_count
            [] o = "locked" ->
                 /\ retry_count' = retry_count + 1
                 /\ update_log' = update_log \o <<Logged("locked", 0, NONE)>>
                                             \o AfterLocked(retry_count', row, id)
                 /\ upc' = IF retry_count' < max_retries THEN "prompt" ELSE "returned"
                 /\ UNCHANGED csv_file
            [] o = "error" ->
                 \* lines 520-523: the warning shows the exception only
                 /\ update_log' = update_log \o <<Logged("error", 0, NONE),
                                                    Logged("warning", 0, NONE)>>
                 /\ upc' = "returned"
                 /\ UNCHANGED <<csv_file, retry_count>>
    /\ UNCHANGED update_call
    /\ UNCHANGED <<ctlVars, rowVars, colVars, argVars, formVars, kwVars>>

\* update_csv_workspace_id, line 513: input() returns when the operator
\* presses Enter, or raises EOFError when there is no input to read
OperatorConfirms(p) ==
    /\ upc = "prompt"
    /\ update_log' = Append(update_log, Logged(IF p = "enter" THEN "prompt" ELSE "eof", 0, NONE))
    /\ upc' = IF p = "enter" THEN "try" ELSE "raised"
    /\ UNCHANGED <<csv_file, update_call, retry_count>>
    /\ UNCHANGED <<ctlVars, rowVars, colVars, argVars, formVars, kwVars>>

\* the source CSV when update_csv_workspace_id is called, and the arguments
\* process_single_row passes (1678, 1755): the number of a row read_csv_line
\* found in the file, and a workspace id
InitCsv ==
    /\ csv_file \in UNION {[1..n -> CsvCells] : n \in 1..MaxCsvRows}
    /\ update_call \in [row_number : 1..Len(csv_file), workspace_id : {NEW_ID, "123"}]
    /\ retry_count = 0
    /\ upc = "try"
    /\ update_log = <<>>

NextCsv ==
    \/ \E o \in {"ok", "locked", "error"} : WriteAttempt(o)
    \/ \E p \in {"enter", "eof"} : OperatorConfirms(p)

InitUpdate ==
    InitCsv /\ ControllerIdle /\ CollectorIdle /\ ArgsIdle /\ FormIdle /\ KeywordsIdle

SpecCsv == InitUpdate /\ [][NextCsv]_vars

(***************************************************************************)
(* main.py: the output store and update_output_data.                       *)
(***************************************************************************)
\* bound: an upsert is started only while the store has fewer rows
MaxStoreRows == 3
\* bound: number of process_row / update_output_data calls explored
MaxCalls == 3

URL_COL == "7_original_distribution_url"

\* process_rows, lines 1086-1087: output_columns (four of the thirteen; the
\* others are written the same way as 4_title and dataset_rows)
output_columns == <<URL_COL, "4_title", "Status", "dataset_rows">>

\* "extra" is a column of a loaded output file that no new_row ever names
AllCols == output_columns \o <<"extra">>
AllColSet == Elems(AllCols)

NAN == "NaN"      \* pandas' missing cell

\* a DataFrame: the ordered column labels and the rows (cells of columns the
\* frame does not have are NAN)
EmptyRow == [c \in AllColSet |-> NAN]

Cell(url, title, status, nrows, extra) ==
    [c \in AllColSet |->
        CASE c = URL_COL        -> url
          [] c = "4_title"      -> title
          [] c = "Status"       -> status
          [] c = "dataset_rows" -> nrows
          [] c = "extra"        -> extra]

\* dict.get(key)
Get(d, k) == IF k \in DOMAIN d THEN d[k] ELSE NONE

\* the smallest element of a non-empty set of numbers
Min(S) == CHOOSE m \in S : \A n \in S : m <= n

\* line 761: output_df[output_df[URL_COL] == url].index
MatchingIndices(df, url) == {i \in 1..Len(df.rows) : df.rows[i][URL_COL] = url}

\* the labels of new_row that the frame does not have yet, in dict order
NewCols(df, new_row) ==
    SelectSeq(AllCols, LAMBDA c : c \in DOMAIN new_row /\ c \notin Elems(df.cols))

\* SetRow that leaves a cell alone when the new value is None
SetRow_SkipsNone(df, idx, new_row) ==
    [cols |-> df.cols \o NewCols(df, new_row),
     rows |-> [i \in 1..Len(df.rows) |->
                 IF i = idx
                   THEN [c \in AllColSet |->
                           IF c \in DOMAIN new_row /\ new_row[c] # NONE
                             THEN new_row[c] ELSE df.rows[i][c]]
                   ELSE df.rows[i]]]

\* SetRow that replaces the whole row by new_row
SetRow_WholeRow(df, idx, new_row) ==
    [cols |-> df.cols \o NewCols(df, new_row),
     rows |-> [i \in 1..Len(df.rows) |->
                 IF i = idx
                   THEN [c \in AllColSet |-> IF c \in DOMAIN new_row THEN new_row[c] ELSE NAN]
                   ELSE df.rows[i]]]

\* lines 774-775: output_df.at[idx, key] = value for every item of new_row
SetRow(df, idx, new_row) ==
    [cols |-> df.cols \o NewCols(df, new_row),
     rows |-> [i \in 1..Len(df.rows) |->
                 IF i = idx
                   THEN [c \in AllColSet |->
                           IF c \in DOMAIN new_row THEN new_row[c] ELSE df.rows[i][c]]
                   ELSE df.rows[i]]]

\* lines 780, 785: pd.concat([output_df, pd.DataFrame([new_row])], ignore_index=True)
ConcatRow(df, new_row) ==
    [cols |-> df.cols \o NewCols(df, new_row),
     rows |-> Append(df.rows,
                     [c \in AllColSet |-> IF c \in DOMAIN new_row THEN new_row[c] ELSE NAN])]

\* update_output_data without the search for an existing row
update_output_data_AlwaysAppends(df, new_row) == ConcatRow(df, new_row)

\* update_output_data, lines 757-787: the frame after the update-or-append
update_output_data(df, new_row) ==
    LET url == Get(new_row, URL_COL) IN
    IF Truthy(url) /\ URL_COL \in Elems(df.cols)
      THEN LET matching_indices == MatchingIndices(df, url) IN
           IF matching_indices # {}
             THEN SetRow(df, Min(matching_indices), new_row)
             ELSE ConcatRow(df, new_row)
      ELSE ConcatRow(df, new_row)

\* update_output_data, line 790: to_csv writes a missing cell and None as an
\* empty field
CsvCell(v) == IF v \in {NAN, NONE} THEN "" ELSE v

to_csv(df) ==
    [cols |-> df.cols,
     rows |-> [i \in 1..Len(df.rows) |-> [c \in AllColSet |-> CsvCell(df.rows[i][c])]]]

(***************************************************************************)
(* main.py: process_row.                                                   *)
(***************************************************************************)
\* get_source_data: the URL cell of the source row, stripped ("" when empty)
SourceRowUrls == {"", "ftp://a", "http://a"}

\* line 900: not url or not url.startswith('http')
InvalidUrl(url) == url \notin {"http://a"}

\* access_url: (success, status_msg)
AccessResults == {"Success", "HTTP 404"}

\* what the browser does in the try block, lines 948-1016
\*   ok             PDF and dataset export worked
\*   download_fail  download_dataset returned (False, status, None)
\*   convert_raise  convert_source_to_pdf raised
BrowserResults == {"ok", "download_fail", "convert_raise"}

PDF_STATUS == "PDF generated"
DOWNLOAD_STATUS == "Timeout waiting for download (check if Export/Download buttons work)"
CONVERT_ERROR == "ERROR: Could not convert source to PDF: timeout"

\* "; ".join(status_parts), line 997
Join(parts) ==
    CASE Len(parts) = 1 -> parts[1]
      [] Len(parts) = 2 -> parts[1] \o "; " \o parts[2]
      [] Len(parts) = 3 -> parts[1] \o "; " \o parts[2] \o "; " \o parts[3]

\* create_new_output_row, lines 725-740
create_new_output_row(url, title) == Cell(url, title, NONE, NONE, NONE)

NewRowOf(row) == [c \in Elems(output_columns) |-> row[c]]

\* process_row, lines 896-1039: the output row the invocation builds
\* url/title come from the source row, access and browser from the environment
BuildRow(url, title, access, browser) ==
    LET new_row == NewRowOf(create_new_output_row(url, title)) IN
    IF InvalidUrl(url)
      THEN [new_row EXCEPT !["Status"] = "Invalid URL"]
    ELSE IF access # "Success"
      THEN [new_row EXCEPT !["Status"] = access]
    ELSE CASE browser = "ok" ->
                [new_row EXCEPT !["Status"] = Join(<<access, PDF_STATUS>>),
                                !["dataset_rows"] = "125"]
           [] browser = "download_fail" ->
                [new_row EXCEPT !["Status"] = Join(<<access, PDF_STATUS, DOWNLOAD_STATUS>>),
                                !["dataset_rows"] = "125"]
           [] browser = "convert_raise" ->
                [new_row EXCEPT !["Status"] = Join(<<access, CONVERT_ERROR>>),
                                !["dataset_rows"] = NONE]

\* the failure message of the invocation, NONE when nothing failed
FailureMessage(url, access, browser) ==
    IF InvalidUrl(url) THEN "Invalid URL"
    ELSE IF access # "Success" THEN access
    ELSE CASE browser = "ok"            -> NONE
           [] browser = "download_fail" -> DOWNLOAD_STATUS
           [] browser = "convert_raise" -> CONVERT_ERROR

\* RowsUpserted with an early return on an invalid URL that writes nothing
RowsUpserted_SkipsInvalid(url, title, access, browser) ==
    IF InvalidUrl(url) THEN <<>> ELSE <<BuildRow(url, title, access, browser)>>

\* process_row, lines 910, 927, 1041: the rows handed to update_output_data on
\* the way to the return (one call on each of the three paths)
RowsUpserted(url, title, access, browser) == <<BuildRow(url, title, access, browser)>>

\* the frame after update_output_data was called with each row in turn
RECURSIVE UpdateAll(_, _)
UpdateAll(df, new_rows) ==
    IF new_rows = <<>> THEN df
    ELSE UpdateAll(update_output_data(df, Head(new_rows)), Tail(new_rows))

Running == last.op # "exit" /\ last.n < MaxCalls /\ Len(output_df.rows) < MaxStoreRows

\* update_output_data as a whole, lines 743-797: update or append, then save;
\* a failed save ends the process (sys.exit(1))
UpdateOutputData(new_row, save_ok) ==
    /\ Running
    /\ LET df == update_output_data(output_df, new_row) IN
         /\ output_df' = df
         /\ IF save_ok
              THEN /\ output_file' = to_csv(df)
                   /\ last' = [op |-> "update", n |-> last.n + 1, new_row |-> new_row,
                               before |-> output_df, upserts |-> 1, failure |-> NONE]
              ELSE /\ output_file' = output_file
                   /\ last' = [op |-> "exit", n |-> last.n + 1, new_row |-> new_row,
                               before |-> output_df, upserts |-> 1, failure |-> NONE]
    /\ UNCHANGED <<ctlVars, rowVars, auxVars>>

\* process_row, lines 854-1043
process_row(url, title, folder_ok, access, browser, save_ok) ==
    /\ Running
    /\ IF ~folder_ok
         THEN \* lines 887-890: sys.exit(1)
              /\ last' = [op |-> "exit", n |-> last.n + 1,
                          new_row |-> NewRowOf(create_new_output_row(url, title)),
                          before |-> output_df, upserts |-> 0, failure |-> NONE]
              /\ UNCHANGED <<output_df, output_file>>
         ELSE LET new_rows == RowsUpserted(url, title, access, browser)
                  df == UpdateAll(output_df, new_rows)
              IN /\ output_df' = df
                 /\ output_file' = IF save_ok /\ new_rows # <<>> THEN to_csv(df) ELSE output_file
                 /\ last' = [op |-> IF save_ok \/ new_rows = <<>> THEN "process_row" ELSE "exit",
                             n |-> last.n + 1,
                             new_row |-> NewRowOf(Cell(url, title, NONE, NONE, NONE)),
                             before |-> output_df,
                             upserts |-> Len(new_rows),
                             failure |-> FailureMessage(url, access, browser)]
    /\ UNCHANGED <<ctlVars, rowVars, auxVars>>

\* the field mappings update_output_data is called with directly
NewRows ==
    [{URL_COL} -> {"", "http://b"}]
      \cup [{"Status"} -> {"x"}]
      \cup {[c \in {URL_COL, "Status", "extra"} |->
               IF c = URL_COL THEN u ELSE IF c = "Status" THEN "x" ELSE NONE] :
                  u \in {NONE, "http://a", "http://b"}}

\* the output file as process_rows finds it (lines 1092-1105): absent, or
\* holding rows of an earlier run, no two of them with the same URL
StoredRows ==
    {<<>>,
     <<Cell("http://a", "T", "Success; PDF generated", "125", "kept")>>,
     <<Cell("http://b", "T", "HTTP 404", NAN, NAN), Cell(NAN, "T", "Invalid URL", NAN, NAN)>>}

InitCollector ==
    /\ \E rows \in StoredRows, cols \in {AllCols, output_columns, <<"Status">>} :
          /\ (cols # AllCols => rows = <<>>)
          /\ output_df = [cols |-> cols, rows |-> rows]
          /\ output_file = to_csv([cols |-> cols, rows |-> rows])
    /\ last = [op |-> "none", n |-> 0, new_row |-> [c \in {"Status"} |-> NONE],
               before |-> [cols |-> <<>>, rows |-> <<>>], upserts |-> 0, failure |-> NONE]

NextCollector ==
    \/ \E url \in SourceRowUrls, folder_ok \in BOOLEAN, access \in AccessResults,
          browser \in BrowserResults, save_ok \in BOOLEAN :
          process_row(url, "T", folder_ok, access, browser, save_ok)
    \/ \E new_row \in NewRows, save_ok \in BOOLEAN : UpdateOutputData(new_row, save_ok)

\* process_rows, lines 1092-1105: the state when the row loop is entered
InitStore == InitCollector /\ ControllerIdle /\ AuxIdle

SpecCollector == InitStore /\ [][NextCollector]_vars

(***************************************************************************)
(* chiara_upload.py: fill_project_forms, step by step.                     *)
(***************************************************************************)
\* bound: number of fields of a row that are "" or " "
MaxBlankFields == 2

\* the columns of the record that the guards of the pipeline read
Fields == {"5_agency", "5_agency2", "6_summary_description",
           "7_original_distribution_url", "8_subject_terms1", "8_subject_terms2",
           "8_keywords", "9_geographic_coverage", "10_time_period1", "10_time_period2",
           "11_data_types", "12_collection_notes", "12_download_date_original_source",
           "path"}

\* a filled field
FILLED == "abc"

\* the records explored: every field is filled, "" or " "
Records ==
    UNION {{[f \in Fields |-> IF f \in B THEN v[f] ELSE FILLED] : v \in [B -> {"", " "}]} :
              B \in {S \in SUBSET Fields : Cardinality(S) <= MaxBlankFields}}

\* the steps of fill_project_forms in the order of the code
Pipeline == <<"create", "extract", "expand", "agency", "summary", "url", "keywords",
              "geographic", "time_period", "data_types", "notes", "upload">>

NextStep(step) == Pipeline[(CHOOSE i \in 1..Len(Pipeline) : Pipeline[i] = step) + 1]

\* len(v) != 0 and v != " "
Present(v) == v # "" /\ v # " "

\* The guard conditions of the pipeline.  A guard is named after the step,
\* or after the field where a step tests several cells one by one.
Guard(g, d) ==
    CASE g = "5_agency"         -> Present(d["5_agency"])                         \* 695
      [] g = "5_agency2"        -> Present(d["5_agency2"])                        \* 695
      [] g = "summary"          -> Present(d["6_summary_description"])            \* 744
      [] g = "url"              -> Present(d["7_original_distribution_url"])      \* 786
      [] g = "8_subject_terms1" -> Present(d["8_subject_terms1"])                 \* 815
      [] g = "8_subject_terms2" -> Present(d["8_subject_terms2"])                 \* 815
      [] g = "8_keywords"       -> Present(d["8_keywords"])                       \* 815
      [] g = "geographic"       -> Present(d["9_geographic_coverage"])            \* 848
      [] g = "time_period"      -> d["10_time_period1"] # ""
                                      \/ d["10_time_period2"] # ""                \* 867
      [] g = "data_types"       -> Present(d["11_data_types"])                    \* 894
      [] g = "notes"            -> d["12_collection_notes"] # ""
                                      \/ d["12_download_date_original_source"] # "" \* 913
      [] g = "upload"           -> Present(d["path"])                             \* 949

\* An entry of the log of steps: the guard, what it decided, and how the
\* block behind it went ("skipped" when the guard was false).  n counts the
\* files dropped on the upload field.
Decision(g, d, res) ==
    [guard |-> g, ran |-> Guard(g, d), res |-> IF Guard(g, d) THEN res ELSE "skipped", n |-> 0]

rowRest == <<rpc, current_row, workspace_id, source_url, publish_success, attempt, events,
             printed, raised, workspace_id_str, effects>>

\* an unguarded step of the pipeline: it works, or what it raises leaves
\* fill_project_forms
AfterUnguarded(step, o) ==
    IF o = "ok" THEN [fpc |-> NextStep(step), form_result |-> NONE]
                ELSE [fpc |-> "done", form_result |-> "raise"]

\* fill_project_forms, lines 593-656: open the workspace page, create the
\* project with its title and continue to the project workspace
CreateProject(o) ==
    /\ fpc = "create"
    /\ fpc' = AfterUnguarded("create", o).fpc
    /\ form_result' = AfterUnguarded("create", o).form_result
    /\ UNCHANGED <<datadict, form_workspace_id, steps, row_errors, row_warnings>>
    /\ UNCHANGED <<ctlVars, rowRest, colVars, argVars, csvVars, kwVars>>

\* fill_project_forms, lines 659-669: the workspace id from the current URL
ExtractId(match) ==
    /\ fpc = "extract"
    /\ IF match THEN form_workspace_id' = NEW_ID /\ UNCHANGED row_warnings
                ELSE /\ row_warnings' = Append(row_warnings, "id_not_extracted")
                     /\ UNCHANGED form_workspace_id
    /\ fpc' = NextStep("extract")
    /\ UNCHANGED <<datadict, steps, form_result, row_errors>>
    /\ UNCHANGED <<ctlVars, rowRest, colVars, argVars, csvVars, kwVars>>

\* fill_project_forms, lines 672-686: collapse all, expand all
ExpandAll(o) ==
    /\ fpc = "expand"
    /\ fpc' = AfterUnguarded("expand", o).fpc
    /\ form_result' = AfterUnguarded("expand", o).form_result
    /\ UNCHANGED <<datadict, form_workspace_id, steps, row_errors, row_warnings>>
    /\ UNCHANGED <<ctlVars, rowRest, colVars, argVars, csvVars, kwVars>>

\* fill_project_forms, lines 693-737: the two agency cells, one after the
\* other; when a cell is entered the form controls work or one of them raises
FillAgency(o) ==
    /\ fpc = "agency"
    /\ LET first == Decision("5_agency", datadict, o)
           second == Decision("5_agency2", datadict, IF first.ran THEN "ok" ELSE o)
       IN IF o = "ok"
            THEN /\ steps' = steps \o <<first, Decision("5_agency2", datadict, "ok")>>
                 /\ fpc' = NextStep("agency")
                 /\ UNCHANGED form_result
            ELSE /\ first.ran \/ second.ran
                 /\ steps' = steps \o (IF first.ran THEN <<first>> ELSE <<first, second>>)
                 /\ fpc' = "done"
                 /\ form_result' = "raise"
    /\ UNCHANGED <<datadict, form_workspace_id, row_errors, row_warnings>>
    /\ UNCHANGED <<ctlVars, rowRest, colVars, argVars, csvVars, kwVars>>

\* the steps made of one guard and one block of form controls
FieldSteps == {"summary", "url", "geographic", "time_period", "data_types", "notes"}

\* no field step has a try block of its own: what its block raises leaves
\* fill_project_forms (lines 742-800, 847-944)
AfterFieldStep(step, res) ==
    IF res = "raise" THEN [fpc |-> "done", form_result |-> "raise"]
                     ELSE [fpc |-> NextStep(step), form_result |-> NONE]

\* fill_project_forms, lines 742-800 and 847-944: the guard decides whether
\* the field is entered; entering it works or raises; a skipped summary is
\* recorded as a warning (777-780)
FillField(o) ==
    /\ fpc \in FieldSteps
    /\ LET dec == Decision(fpc, datadict, o) IN
         /\ steps' = Append(steps, dec)
         /\ (~dec.ran => o = "ok")
         /\ row_warnings' = IF fpc = "summary" /\ ~dec.ran
                              THEN Append(row_warnings, "summary_missing")
                              ELSE row_warnings
         /\ fpc' = AfterFieldStep(fpc, dec.res).fpc
         /\ form_result' = AfterFieldStep(fpc, dec.res).form_result
    /\ UNCHANGED <<datadict, form_workspace_id, row_errors>>
    /\ UNCHANGED <<ctlVars, rowRest, colVars, argVars, csvVars, kwVars>>

KeywordCells == <<"8_subject_terms1", "8_subject_terms2", "8_keywords">>

\* fill_project_forms, lines 808-842: the cells that pass the guard give
\* their keywords (a filled cell holds one here; the splitting of a cell is
\* modelled in SpecKeywords); every keyword is entered in its own try block,
\* and a failure is appended to row_errors (842).
\* failed is the set of cells whose keyword could not be entered.
FillKeywords(failed) ==
    /\ fpc = "keywords"
    /\ LET decs == [i \in 1..3 |->
                      Decision(KeywordCells[i], datadict, IF i \in failed THEN "failed" ELSE "ok")]
           entered == {i \in 1..3 : decs[i].ran}
       IN /\ failed \subseteq entered
          /\ steps' = steps \o decs
          /\ row_errors' = row_errors \o [i \in 1..Cardinality(failed) |-> "keyword_error"]
    /\ fpc' = NextStep("keywords")
    /\ UNCHANGED <<datadict, form_workspace_id, form_result, row_warnings>>
    /\ UNCHANGED <<ctlVars, rowRest, colVars, argVars, csvVars, kwVars>>

\* bound: number of files in the upload folder of a row
MaxFiles == 3

\* chiara_upload.py:959  the number of files a row is expected to have
ExpectedFiles == 2

\* What the upload step runs into (lines 949-990):
\*   open_raise   the upload dialog or the folder listing raises (952-958)
\*   drag_raise   drag_and_drop_file raises (966)
\*   wait_raise   the wait for the queue or the close button raises (983-990)
\*   ok           nothing raises
UploadOutcomes == {"open_raise", "drag_raise", "wait_raise", "ok"}

\* fill_project_forms, lines 959-962: the warning about the number of files
\* is handed to verbose_print only; row_warnings stays as it is
WrongFileCount(warnings) == warnings

\* fill_project_forms, lines 949-992: the upload and the return.
\* files is the number of files get_paths_uploadfiles finds, dragged the
\* number of files dropped before drag_and_drop_file raises.
UploadFiles(files, u, dragged) ==
    /\ fpc = "upload"
    /\ LET g == Guard("upload", datadict)
           res == CASE ~g                    -> "skipped"
                    [] u = "open_raise"      -> "raise"
                    [] files # ExpectedFiles -> "file_count"
                    [] u = "ok"              -> "ok"
                    [] OTHER                 -> "raise"
           n == CASE res = "ok"                   -> files
                  [] res = "raise" /\ u = "wait_raise" -> files
                  [] res = "raise" /\ u = "drag_raise" -> dragged
                  [] OTHER                        -> 0
       IN /\ (~g => files = 0 /\ u = "ok")
          /\ (u # "drag_raise" \/ res # "raise") => dragged = 0
          /\ steps' = Append(steps, [guard |-> "upload", ran |-> g, res |-> res, n |-> n])
          /\ row_warnings' = IF res = "file_count" THEN WrongFileCount(row_warnings)
                                                  ELSE row_warnings
          /\ row_errors' = IF res = "raise" /\ u = "drag_raise"
                              THEN Append(row_errors, "upload_error")            \* 974
                              ELSE row_errors
          /\ form_result' = CASE res = "file_count" -> "bare_return"             \* 962
                               [] res = "raise"      -> "raise"
                               [] OTHER              -> "return"                  \* 992
    /\ fpc' = "done"
    /\ UNCHANGED <<datadict, form_workspace_id>>
    /\ UNCHANGED <<ctlVars, rowRest, colVars, argVars, csvVars, kwVars>>

\* fill_project_forms is called with the record of the row and empty lists
InitForm ==
    /\ datadict \in Records
    /\ fpc = "create"
    /\ form_workspace_id = NONE
    /\ steps = <<>>
    /\ form_result = NONE

NextPipeline ==
    \/ \E o \in {"ok", "raise"} : CreateProject(o)
    \/ \E match \in BOOLEAN : ExtractId(match)
    \/ \E o \in {"ok", "raise"} : ExpandAll(o)
    \/ \E o \in {"ok", "raise"} : FillAgency(o)
    \/ \E o \in {"ok", "raise"} : FillField(o)
    \/ \E failed \in SUBSET (1..3) : FillKeywords(failed)
    \/ \E files \in 0..MaxFiles, u \in UploadOutcomes, dragged \in 0..(ExpectedFiles - 1) :
          UploadFiles(files, u, dragged)

InitPipeline ==
    InitForm /\ ControllerIdle /\ CollectorIdle /\ ArgsIdle /\ CsvIdle /\ KeywordsIdle

SpecPipeline == InitPipeline /\ [][NextPipeline]_vars

(***************************************************************************)
(* chiara_upload.py: parse_arguments, the --rows argument.                 *)
(***************************************************************************)
\* bound: largest row number written in a --rows argument
MaxRowNumber == 10
\* bound: largest b - a of a range a-b written in a --rows argument
MaxRangeLen == 2
\* bound: number of comma-separated parts of a --rows argument
MaxItems == 2

Digits == <<"0", "1", "2", "3", "4", "5", "6", "7", "8", "9">>
DigitChars == Elems(Digits)
DigitValue(ch) == (CHOOSE i \in 1..10 : Digits[i] = ch) - 1

\* str(n) for n >= 0, as a sequence of characters
RECURSIVE Str(_)
Str(n) == IF n < 10 THEN <<Digits[n + 1]>> ELSE Str(n \div 10) \o <<Digits[(n % 10) + 1]>>

\* a part of the argument as the user means it: a row number or a range
Num(n) == [kind |-> "num", a |-> n, b |-> n]
Rng(a, b) == [kind |-> "range", a |-> a, b |-> b]

Items == {Num(n) : n \in 0..MaxRowNumber}
           \cup {Rng(a, a + k) : a \in 0..MaxRowNumber, k \in 0..MaxRangeLen}

\* the example of the help text, line 72: "1,3,5,7-10"
ExampleItems == <<Num(1), Num(3), Num(5), Rng(7, 10)>>

WriteItem(it) == IF it.kind = "num" THEN Str(it.a) ELSE Str(it.a) \o <<"-">> \o Str(it.b)

\* the argument string for a list of parts, written with separator sep
RECURSIVE WriteRows(_, _)
WriteRows(items, sep) ==
    IF Len(items) = 1 THEN WriteItem(items[1])
    ELSE WriteItem(Head(items)) \o sep \o WriteRows(Tail(items), sep)

\* s.split(ch)
RECURSIVE Split(_, _)
Split(str, ch) ==
    LET at == {i \in 1..Len(str) : str[i] = ch} IN
    IF at = {} THEN <<str>>
    ELSE LET k == CHOOSE i \in at : \A j \in at : i <= j
         IN <<SubSeq(str, 1, k - 1)>> \o Split(SubSeq(str, k + 1, Len(str)), ch)

\* s.split(ch, 1) for a string that contains ch
SplitOnce(str, ch) ==
    LET at == {i \in 1..Len(str) : str[i] = ch}
        k == CHOOSE i \in at : \A j \in at : i <= j
    IN <<SubSeq(str, 1, k - 1), SubSeq(str, k + 1, Len(str))>>

\* s.strip() on a sequence of characters
RECURSIVE StripSpaces(_)
StripSpaces(str) ==
    IF str # <<>> /\ Head(str) = " " THEN StripSpaces(Tail(str))
    ELSE IF str # <<>> /\ str[Len(str)] = " " THEN StripSpaces(SubSeq(str, 1, Len(str) - 1))
    ELSE str

RECURSIVE DecimalValue(_)
DecimalValue(ds) ==
    IF ds = <<>> THEN 0
    ELSE DecimalValue(SubSeq(ds, 1, Len(ds) - 1)) * 10 + DigitValue(ds[Len(ds)])

\* int(s): the number, or ok = FALSE for ValueError
ParseInt(str) ==
    LET t == StripSpaces(str)
        neg == t # <<>> /\ Head(t) = "-"
        ds == IF neg THEN Tail(t) ELSE t
    IN IF ds # <<>> /\ \A i \in 1..Len(ds) : ds[i] \in DigitChars
         THEN [ok |-> TRUE, v |-> IF neg THEN 0 - DecimalValue(ds) ELSE DecimalValue(ds)]
         ELSE [ok |-> FALSE, v |-> 0]

\* parse_arguments, lines 152-161: the rows one part adds to rows_list
ParsePart(p) ==
    LET part == StripSpaces(p) IN
    IF "-" \in Elems(part)
      THEN LET se == SplitOnce(part, "-")
               start == ParseInt(StripSpaces(se[1]))
               end == ParseInt(StripSpaces(se[2]))
           IN IF start.ok /\ end.ok THEN [ok |-> TRUE, rows |-> Range(start.v, end.v)]
                                    ELSE [ok |-> FALSE, rows |-> <<>>]
      ELSE LET n == ParseInt(part) IN
           IF n.ok THEN [ok |-> TRUE, rows |-> <<n.v>>] ELSE [ok |-> FALSE, rows |-> <<>>]

\* a set of numbers as an ascending list
RECURSIVE Ascending(_)
Ascending(S) ==
    IF S = {} THEN <<>>
    ELSE LET m == CHOOSE x \in S : \A y \in S : x <= y IN <<m>> \o Ascending(S \ {m})

\* SortedSet that keeps rows_list as it is
SortedSet_AsWritten(rows_list) == rows_list

\* parse_arguments, line 163: sorted(list(set(rows_list)))
SortedSet(rows_list) == Ascending(Elems(rows_list))

RECURSIVE ExtendAll(_)
ExtendAll(parts) == IF parts = <<>> THEN <<>> ELSE Head(parts).rows \o ExtendAll(Tail(parts))

\* parse_arguments, lines 147-168: args.rows, or ok = FALSE when parser.error
\* ends the program
ParseRowsArg(str) ==
    LET parts == Split(str, ",")
        parsed == [i \in 1..Len(parts) |-> ParsePart(parts[i])]
    IN IF \E i \in 1..Len(parts) : ~parsed[i].ok
         THEN [ok |-> FALSE, rows |-> <<>>]        \* ValueError, line 166
         ELSE LET rows == SortedSet(ExtendAll(parsed)) IN
              IF rows = <<>> \/ \E i \in 1..Len(rows) : rows[i] < 1
                THEN [ok |-> FALSE, rows |-> <<>>]  \* line 165
                ELSE [ok |-> TRUE, rows |-> rows]

\* parse_arguments, lines 147-170, and main, lines 1778-1781: the --rows
\* string becomes the work list, or the program ends with a usage error
ParseRows ==
    /\ cpc = "idle"
    /\ rows_arg # <<>>
    /\ LET res == ParseRowsArg(rows_arg) IN
         /\ cpc' = IF res.ok THEN "parsed" ELSE "usage_error"
         /\ rows_to_process' = res.rows
    /\ UNCHANGED <<args, batches, batch_index, row_index_in_batch, open_sessions, calls,
                   csv_writable, session, rowVars>>
    /\ UNCHANGED <<colVars, argVars, csvVars, formVars, kwVars>>

\* the --rows strings explored: up to MaxItems parts, and the example
InitArgs ==
    /\ rows_items \in UNION {[1..n -> Items] : n \in 1..MaxItems} \cup {ExampleItems}
    /\ \E sep \in {<<",">>, <<",", " ">>} : rows_arg = WriteRows(rows_items, sep)

NextRows == ParseRows

InitRows ==
    InitArgs /\ ControllerIdle /\ CollectorIdle /\ CsvIdle /\ FormIdle /\ KeywordsIdle

SpecRows == InitRows /\ [][NextRows]_vars

(***************************************************************************)
(* chiara_upload.py: fill_project_forms, the keyword step.                 *)
(***************************************************************************)
\* bound: number of keywords written into the first keyword cell
MaxKeywords == 2

\* chiara_upload.py:822  `if len(keyword) <= 2: continue`
ShortKeyword == 2

\* a keyword as the record's author means it: a word, written plain, in
\* single quotes, in double quotes or in brackets
KeywordWords == {<<"a", "b">>, <<"a", "b", "c">>}
Wraps == {"plain", "quoted", "dquoted", "bracketed"}
KeywordItems == [word : KeywordWords, wrap : Wraps]

\* the example of the spec: A, 'B', [C]
ExampleKeywords == <<[word |-> <<"A">>, wrap |-> "plain"],
                     [word |-> <<"B">>, wrap |-> "quoted"],
                     [word |-> <<"C">>, wrap |-> "bracketed"]>>

WriteKeyword(it) ==
    CASE it.wrap = "plain"     -> it.word
      [] it.wrap = "quoted"    -> <<"'">> \o it.word \o <<"'">>
      [] it.wrap = "dquoted"   -> <<"\"">> \o it.word \o <<"\"">>
      [] it.wrap = "bracketed" -> <<"[">> \o it.word \o <<"]">>

\* the text of a cell for a list of keywords, written with separator sep
RECURSIVE WriteCell(_, _)
WriteCell(items, sep) ==
    IF items = <<>> THEN <<>>
    ELSE IF Len(items) = 1 THEN WriteKeyword(items[1])
    ELSE WriteKeyword(Head(items)) \o sep \o WriteCell(Tail(items), sep)

\* s.replace(ch, "") for every ch in chars
RemoveChars(str, chars) == SelectSeq(str, LAMBDA ch : ch \notin chars)

\* s.strip(chars)
RECURSIVE StripChars(_, _)
StripChars(str, chars) ==
    IF str # <<>> /\ Head(str) \in chars THEN StripChars(Tail(str), chars)
    ELSE IF str # <<>> /\ str[Len(str)] \in chars
           THEN StripChars(SubSeq(str, 1, Len(str) - 1), chars)
    ELSE str

\* line 815: len(single_keywordcell) > 0 and single_keywordcell != " "
KeywordCellGuard(cell) == Len(cell) > 0 /\ cell # <<" ">>

\* lines 816-817: quotes and brackets are removed, the rest is split at ","
SplitCell(cell) == Split(RemoveChars(cell, {"'", "[", "]", "\""}), ",")

\* fill_project_forms, lines 813-818: keywords_to_insert
RECURSIVE KeywordsToInsert(_)
KeywordsToInsert(cells) ==
    IF cells = <<>> THEN <<>>
    ELSE (IF KeywordCellGuard(Head(cells)) THEN SplitCell(Head(cells)) ELSE <<>>)
            \o KeywordsToInsert(Tail(cells))

\* line 821: keyword = single_keyword.strip(" '")
Keyword(single_keyword) == StripChars(single_keyword, {" ", "'"})

\* an entry of keyword_log
KeywordEntry(keyword, res) == [keyword |-> keyword, res |-> res]

\* fill_project_forms, lines 808-819: the list is built from the cells
ExtractKeywords ==
    /\ kpc = "cells"
    /\ keywords_to_insert' = KeywordsToInsert(keywordcells)
    /\ kpc' = IF keywords_to_insert' = <<>> THEN "done" ELSE "loop"
    /\ UNCHANGED <<keyword_items, keywordcells, keyword_log>>
    /\ UNCHANGED <<ctlVars, rowVars, colVars, argVars, csvVars, formVars>>

\* fill_project_forms, lines 820-842: one iteration of the loop.  A keyword
\* of length 2 or less is passed over; any other is entered into the form in
\* a try block, and a failure is appended to row_errors (842).
EnterKeyword(o) ==
    /\ kpc = "loop"
    /\ LET i == Len(keyword_log) + 1
           keyword == Keyword(keywords_to_insert[i])
       IN /\ IF Len(keyword) <= ShortKeyword
               THEN /\ o = "ok"
                    /\ keyword_log' = Append(keyword_log, KeywordEntry(keyword, "discarded"))
                    /\ UNCHANGED row_errors
               ELSE /\ keyword_log' = Append(keyword_log, KeywordEntry(keyword,
                                                IF o = "ok" THEN "entered" ELSE "failed"))
                    /\ row_errors' = IF o = "ok" THEN row_errors
                                                 ELSE Append(row_errors, "keyword_error")
          /\ kpc' = IF i = Len(keywords_to_insert) THEN "done" ELSE "loop"
    /\ UNCHANGED <<keyword_items, keywordcells, keywords_to_insert>>
    /\ UNCHANGED <<ctlVars, rpc, current_row, row_warnings, workspace_id, source_url,
                   publish_success, attempt, events, printed, raised, workspace_id_str, effects>>
    /\ UNCHANGED <<colVars, argVars, csvVars, formVars>>

\* the cells explored: the first holds up to MaxKeywords keywords (or the
\* example) separated by commas or semicolons, the second is "" or " ", the
\* third is empty or holds one more keyword
InitCells ==
    /\ keyword_items \in UNION {[1..n -> KeywordItems] : n \in 0..MaxKeywords}
                            \cup {ExampleKeywords}
    /\ \E sep \in {<<",">>, <<",", " ">>, <<";">>, <<";", " ">>},
          second \in {<<>>, <<" ">>}, third \in {<<>>, <<"x", "y", "z">>} :
          /\ keyword_items = ExampleKeywords => sep = <<",", " ">>
          /\ keywordcells = <<WriteCell(keyword_items, sep), second, third>>
    /\ keywords_to_insert = <<>>
    /\ kpc = "cells"
    /\ keyword_log = <<>>

NextKeywords ==
    \/ ExtractKeywords
    \/ \E o \in {"ok", "fail"} : EnterKeyword(o)

InitKeywords ==
    InitCells /\ ControllerIdle /\ CollectorIdle /\ ArgsIdle /\ CsvIdle /\ FormIdle

SpecKeywords == InitKeywords /\ [][NextKeywords]_vars

(***************************************************************************)
(* Properties of the uploader (chiara_upload.py).                          *)
(***************************************************************************)
\* the publish attempts of the current invocation that found a non-empty
\* #errormsg (raise at line 1377 or at line 1454)
ErrorMsgAttempts == {i \in 1..Len(events) : events[i].result = BRE}

\* the rows handed to process_single_row so far, in order
RowsCalled == [i \in 1..Len(calls) |-> calls[i][1]]

\* C1: when publish_workspace found a non-empty #errormsg, on either attempt
\* and at either place, BatchRestartException leaves process_single_row and
\* so reaches the Controller loop.
C1_SignalReachesController ==
    (cpc = "in_row" /\ rpc = "returned" /\ ErrorMsgAttempts # {}) => raised = BRE

\* C2: when BatchRestartException reaches the Controller at item k of the
\* batch, the Controller leaves the batch, closes the session and inserts one
\* new batch holding items k..B (the failed item included) right after the
\* current batch.
C2_RestartKeepsFailedRow ==
    [][(cpc = "in_row" /\ rpc = "returned" /\ raised = BRE) =>
          /\ cpc' = "next"
          /\ open_sessions' = open_sessions - 1
          /\ batches' = InsertAt(batches, batch_index,
                                 SubSeq(batch_rows, row_index_in_batch, Len(batch_rows)))]_vars

\* C3: at "All Batches Complete" every row of the work list has had an
\* invocation that did not end in BatchRestartException, and a row is invoked
\* again only right after an invocation of it that ended in that signal.
C3_NoRowDroppedOrRepeated ==
    cpc = "done" =>
        /\ \A r \in Elems(rows_to_process) : \E i \in 1..Len(calls) : calls[i] = <<r, NONE>>
        /\ \A i, j \in 1..Len(calls) :
              (i < j /\ calls[i][1] = calls[j][1]
                     /\ \A m \in (i + 1)..(j - 1) : calls[m][1] # calls[i][1])
                 => calls[i][2] = BRE

\* C4: without a batch-fatal signal the Controller hands every row of the
\* work list to process_single_row exactly once, in work-list order, also
\* when opening a session fails.
C4_EveryRowExactlyOnce ==
    (cpc = "done" /\ \A i \in 1..Len(calls) : calls[i][2] # BRE) => RowsCalled = rows_to_process

\* the summary lines the current invocation printed
SummaryLines == {i \in 1..Len(printed) : printed[i].kind = "summary"}

RowReturned == cpc = "in_row" /\ rpc = "returned"

\* C8 as claimed: every invocation of process_single_row prints exactly one
\* summary line, on every exit path and for both values of verbose.
C8_OneSummaryLineAlways == RowReturned => Cardinality(SummaryLines) = 1

\* C8 as amended: with verbose off every invocation prints exactly one summary
\* line (ordinal, workspace id or N/A, source URL or N/A) on every exit path;
\* with verbose on it prints none.
C8_OneSummaryLineUnlessVerbose ==
    RowReturned =>
        IF args.verbose
          THEN SummaryLines = {}
          ELSE /\ Cardinality(SummaryLines) = 1
               /\ \A i \in SummaryLines : printed[i] = SummaryLine(workspace_id, source_url)

\* a non-verbose invocation that ended in the exception handler
C8_SummaryAfterException ==
    RowReturned /\ ~args.verbose /\ "row_error" \in Elems(row_errors)
                /\ Cardinality(SummaryLines) = 1

\* the publish attempts of the current invocation
Attempts == {i \in 1..Len(events) : events[i].kind = "attempt"}

\* C9: publish_workspace makes at most two attempts; the second comes only
\* after a failed first one and after the delay; failure is reported only
\* after two failed attempts.
C9_AtMostTwoAttempts ==
    /\ Cardinality(Attempts) <= 2
    /\ \A i \in Attempts :
          IF events[i].n = 0
            THEN i = 1
            ELSE /\ i = 3
                 /\ events[2].kind = "sleep"
                 /\ events[1].kind = "attempt" /\ events[1].result # "ok"
    /\ "publish_failed" \in Elems(row_warnings) =>
          /\ Cardinality(Attempts) = 2
          /\ \A i \in Attempts : events[i].result # "ok"

\* an invocation in which the second attempt was made
C9_SecondAttemptMade ==
    RowReturned /\ Len(events) = 3 /\ events[3].kind = "attempt" /\ events[3].n = 1

\* the first attempt raised and the second succeeded
RetrySucceeded ==
    /\ Len(events) = 3
    /\ events[1].kind = "attempt" /\ events[1].result # "ok"
    /\ events[3].kind = "attempt" /\ events[3].result = "ok"

\* C10: when the first attempt raises and the second succeeds, publish is
\* reported as successful and neither list of the row has an entry about a
\* publish failure.
C10_RetrySuccessLeavesNoWarning ==
    RetrySucceeded =>
        /\ publish_success
        /\ "publish_failed" \notin Elems(row_warnings) \cup Elems(row_errors)

\* an invocation that returned after a successful retry
C10_RetrySucceededAndReturned == RowReturned /\ RetrySucceeded

\* the ids fill_project_forms extracted in the current invocation
ObtainedIds == {effects[i].id : i \in {j \in 1..Len(effects) :
                                          effects[j].op = "fill" /\ effects[j].id # NONE}}

\* update_csv_workspace_id was called with id and wrote the file
WrittenBack(id) == \E i \in 1..Len(effects) : effects[i] = Effect("csv", "written", id)

\* C11: when fill_project_forms extracted a workspace id from the location
\* reached after project creation, the id has been written to the source CSV
\* by the time process_single_row returns, also when a later step warned,
\* returned early or raised.
C11_ObtainedIdWrittenBack == RowReturned => \A id \in ObtainedIds : WrittenBack(id)

\* the calls of update_google_sheet in the current invocation
SheetCalls == {i \in 1..Len(effects) : effects[i].op = "gsheet"}

BadIds == {"", "abc", "inf"}

\* C14: in only-publish mode a row whose datalumos_id is absent or
\* non-numeric returns with exactly one row error and without an exception,
\* fill_project_forms and publish_workspace have not run, and the Controller
\* goes on with the rows of the batch in the same session.
C14_BadIdEndsRowOnly ==
    [][(RowReturned /\ args.publish_mode = "only-publish" /\ workspace_id_str \in BadIds) =>
          /\ Len(row_errors) = 1
          /\ raised = NONE
          /\ events = <<>>
          /\ effects = <<>>
          /\ cpc' = "rows"
          /\ open_sessions' = open_sessions
          /\ session' = session]_vars

\* a row with a non-numeric id has returned and the batch has a next row
C14_BadIdRowReturned ==
    /\ RowReturned /\ args.publish_mode = "only-publish" /\ workspace_id_str = "abc"
    /\ row_index_in_batch < Len(batch_rows)

\* C17: when the source CSV is not writable at the start, main ends before
\* any row processing: no session is opened, no sign-in is attempted and
\* process_single_row is never called.
C17_UnwritableCsvEndsRun ==
    ~csv_writable =>
        /\ cpc \in {"check", "aborted"}
        /\ open_sessions = 0
        /\ session = NoSession
        /\ calls = <<>>
        /\ rpc = "idle"

\* main has returned after the failed check
C17_RunAborted == cpc = "aborted" /\ ~csv_writable /\ args.end_row >= args.start_row

\* C18: missing required registry columns are detected before any row
\* processing begins and abort the run: when they are detected no row has
\* been handed to process_single_row and main ends.
C18_MissingColumnsAbortRun ==
    (\E i \in SheetCalls : effects[i].res = "missing_columns") =>
        /\ session.rows = <<>>
        /\ calls = <<>>
        /\ cpc \in {"check", "aborted"}

GwdaCalls == {i \in 1..Len(effects) : effects[i].op = "gwda"}

\* the entries of a list that are equal to x
Count(list, x) == Cardinality({i \in 1..Len(list) : list[i] = x})

GwdaWarnings == {"gwda_skipped", "gwda_failed", "gwda_error"}

\* C22: for a row whose source URL is present the nomination does not depend
\* on how the rest of the row went: with an operator email it is attempted
\* exactly once, without one it is skipped with one warning; a failed
\* nomination is a row warning and never a row error.
C22_NominationWhateverTheOutcome ==
    (RowReturned /\ Truthy(source_url)) =>
        /\ args.email => Cardinality(GwdaCalls) = 1
        /\ ~args.email => GwdaCalls = {} /\ Count(row_warnings, "gwda_skipped") = 1
        /\ \A i \in GwdaCalls :
              effects[i].res # "ok" =>
                 Cardinality({j \in 1..Len(row_warnings) :
                                 row_warnings[j] \in {"gwda_failed", "gwda_error"}}) = 1
        /\ Elems(row_errors) \cap GwdaWarnings = {}

\* the calls of fill_project_forms in the current invocation
FillCalls == {i \in 1..Len(effects) : effects[i].op = "fill"}

\* the calls of fill_project_forms that returned
FillReturned == {i \in FillCalls : effects[i].res # "raise"}

\* C23: the mode fixes the sub-workflows of a row.  default: publish is
\* attempted after the pipeline has run, and always once it has returned;
\* no-publish: the pipeline runs, publish and the registry update are never
\* attempted; only-publish: the pipeline never runs and publish works on the
\* workspace whose id was read from the record.
C23_ModeFixesSubWorkflows ==
    cpc = "in_row" =>
        /\ Cardinality(FillCalls) <= 1
        /\ args.publish_mode = "default" =>
              /\ Attempts # {} => FillReturned # {}
              /\ (rpc \in {"gsheet", "csv", "gwda", "summary"} \/ (RowReturned /\ FillReturned # {}))
                    => Attempts # {}
        /\ args.publish_mode = "no-publish" =>
              /\ Attempts = {} /\ SheetCalls = {} /\ ~publish_success
              /\ rpc \in {"gsheet", "csv", "gwda", "summary"} => FillReturned # {}
        /\ args.publish_mode = "only-publish" =>
              /\ FillCalls = {}
              /\ Attempts # {} => /\ workspace_id_str \notin BadIds
                                  /\ workspace_id = IntFloat(workspace_id_str)

\* a row of no-publish mode went through the pipeline and returned, with
\* the registry configured
C23_NoPublishRowDone ==
    /\ RowReturned /\ args.publish_mode = "no-publish" /\ args.google
    /\ FillReturned # {} /\ \E i \in FillReturned : effects[i].id = NEW_ID

\* the calls of the current invocation that raised out of the try block of
\* process_single_row
UncaughtFailures ==
    {i \in 1..Len(effects) : \/ effects[i].op = "fill" /\ effects[i].res = "raise"
                             \/ effects[i].op = "gsheet" /\ effects[i].res = "ValueError"}

\* the row was aborted: the handler at 1737 recorded the failure
Aborted == Count(row_errors, "row_error") >= 1

\* C24: a failure that nothing inside the row catches aborts the row: no
\* later step of the row is executed (the handler only writes an id it holds
\* back to the CSV), the failure is recorded as one row error, nothing but
\* the batch-fatal signal leaves process_single_row, and main goes on with
\* the next row of the same batch in the same session.
C24_FailureAbortsRowOnly ==
    /\ [](RowReturned =>
            /\ raised \in {NONE, BRE}
            /\ UncaughtFailures # {} => Aborted
            /\ Aborted =>
                  /\ Count(row_errors, "row_error") = 1
                  /\ GwdaCalls = {}
                  /\ Cardinality(UncaughtFailures) <= 1
                  /\ \A i \in UncaughtFailures :
                        /\ \A j \in (i + 1)..Len(effects) : effects[j].op = "csv"
                        /\ Len(effects) <= i + 1
                        /\ effects[i].op = "fill" => Attempts = {} /\ Len(effects) = i)
    /\ [][(RowReturned /\ Aborted /\ raised = NONE) =>
             /\ cpc' = "rows"
             /\ open_sessions' = open_sessions /\ open_sessions = 1
             /\ session' = session
             /\ batches' = batches /\ batch_index' = batch_index
             /\ row_index_in_batch' = row_index_in_batch]_vars
    /\ [][(cpc = "rows" /\ cpc' = "in_row") =>
             current_row' = batch_rows[row_index_in_batch + 1]]_vars

\* the pipeline raised in a row that is not the last of its batch; the row
\* was aborted and has returned
C24_RowAbortedMidBatch ==
    /\ RowReturned /\ Aborted /\ raised = NONE
    /\ \E i \in UncaughtFailures : effects[i].op = "fill"
    /\ row_index_in_batch < Len(batch_rows)

\* the invocations of row r so far
CallsOf(r) == {i \in 1..Len(calls) : calls[i][1] = r}

\* C21: restarts are not capped: a row that triggers the batch-fatal
\* condition each time it is processed is retried again and again, so a run
\* with such a row never reaches "All Batches Complete".
C21_AlwaysFatalRowNeverCompletes ==
    cpc = "done" =>
        \A r \in Elems(RowsCalled) : \E i \in CallsOf(r) : calls[i][2] # BRE

(***************************************************************************)
(* Properties of fill_project_forms.                                       *)
(***************************************************************************)
\* the record with every " " replaced by ""
Blanked(d) == [f \in DOMAIN d |-> IF d[f] = " " THEN "" ELSE d[f]]

\* C15: every guard of the pipeline decides for a field value of " " as it
\* does for "": each decision taken for the record is the decision the
\* guard takes for the record with " " replaced by "".
C15_BlankSameAsEmpty ==
    \A i \in 1..Len(steps) : steps[i].ran = Guard(steps[i].guard, Blanked(datadict))

\* the guards of the field-fill steps the spec calls recoverable
RecoverableGuards == {"5_agency", "5_agency2", "summary", "url", "geographic",
                      "time_period", "data_types", "notes"}

\* the warnings the pipeline records for something other than a failed step
OtherWarnings == {"id_not_extracted", "summary_missing", "file_count"}

\* C25: when the block of a recoverable field-fill step raises, the failure
\* is recorded as a warning and the pipeline goes on with the next step, so
\* that the upload step is still reached.
C25_RecoverableFailureIsWarning ==
    \A i \in 1..Len(steps) :
        (steps[i].guard \in RecoverableGuards /\ steps[i].res = "raise") =>
            /\ form_result # "raise"
            /\ Elems(row_warnings) \ OtherWarnings # {}
            /\ fpc = "done" => \E j \in (i + 1)..Len(steps) : steps[j].guard = "upload"

\* C27: when the upload folder does not hold exactly 2 files, the upload
\* step returns early, no file is dropped on the upload field, and a warning
\* about the file count is in the row's warning list.
C27_WrongFileCountWarns ==
    \A i \in 1..Len(steps) :
        (steps[i].guard = "upload" /\ steps[i].res = "file_count") =>
            /\ steps[i].n = 0
            /\ form_result = "bare_return"
            /\ "file_count" \in Elems(row_warnings)

(***************************************************************************)
(* Properties of the keyword step.                                         *)
(***************************************************************************)
KeywordsWith(res) == {i \in 1..Len(keyword_log) : keyword_log[i].res = res}

\* C26: a failure on one keyword is recorded as one entry of the row's
\* warning list, not of its error list, and is not raised; the loop goes on
\* with every remaining keyword, and after the loop there are as many
\* entries as keywords that failed.
C26_KeywordFailureIsWarning ==
    kpc = "done" =>
        /\ Len(keyword_log) = Len(keywords_to_insert)
        /\ Count(row_warnings, "keyword_error") = Cardinality(KeywordsWith("failed"))
        /\ Count(row_errors, "keyword_error") = 0

\* the keywords the loop tried to enter, in order
KeywordsTried ==
    LET tried == SelectSeq(keyword_log, LAMBDA e : e.res # "discarded")
    IN [i \in 1..Len(tried) |-> tried[i].keyword]

\* the words of a list of keywords that are longer than ShortKeyword
LongWords(items) ==
    LET long == SelectSeq(items, LAMBDA it : Len(it.word) > ShortKeyword)
    IN [i \in 1..Len(long) |-> long[i].word]

\* C28: the cells are split at commas and semicolons, quotes, brackets and
\* surrounding blanks are removed and keywords of length 2 or less are
\* dropped: the keywords entered are the words of the cells longer than 2
\* characters; for "A, 'B', [C]" they are A, B, C.
C28_KeywordsExtracted ==
    kpc = "done" =>
        /\ keyword_items # ExampleKeywords =>
              KeywordsTried = LongWords(keyword_items) \o KeywordsToInsert(<<keywordcells[3]>>)
        /\ (keyword_items = ExampleKeywords /\ keywordcells[3] = <<>>) =>
              KeywordsTried = <<<<"A">>, <<"B">>, <<"C">>>>

(***************************************************************************)
(* Properties of parse_arguments.                                          *)
(***************************************************************************)
\* positive row numbers and ranges a-b with 1 <= a <= b
ValidItems(items) ==
    \A i \in 1..Len(items) : items[i].a >= 1 /\ items[i].a <= items[i].b

\* the rows the parts name
RowsNamed(items) == UNION {items[i].a..items[i].b : i \in 1..Len(items)}

\* C16: for every valid --rows argument the parsed list holds exactly the
\* rows of the listed numbers and ranges, each once, in ascending order.
C16_RowsSortedUnion ==
    (cpc \in {"parsed", "usage_error"} /\ ValidItems(rows_items)) =>
        /\ cpc = "parsed"
        /\ Elems(rows_to_process) = RowsNamed(rows_items)
        /\ \A i, j \in 1..Len(rows_to_process) :
              i < j => rows_to_process[i] < rows_to_process[j]

\* "1,3,5,7-10" was parsed to 1,3,5,7,8,9,10
C16_ExampleParsed ==
    /\ cpc = "parsed"
    /\ rows_arg = <<"1", ",", "3", ",", "5", ",", "7", "-", "1", "0">>
    /\ rows_to_process = <<1, 3, 5, 7, 8, 9, 10>>

(***************************************************************************)
(* Properties of update_csv_workspace_id.                                  *)
(***************************************************************************)
LogKinds(kinds) == {i \in 1..Len(update_log) : update_log[i].kind \in kinds}

WriteAttempts == LogKinds({"written", "locked", "error"})

UpdateEnded == upc \in {"returned", "raised"}

\* the value is in the file, or was printed for manual entry
ValueKept ==
    \/ /\ update_call.row_number <= Len(csv_file)
       /\ csv_file[update_call.row_number] = update_call.workspace_id
       /\ LogKinds({"written"}) # {}
    \/ \E i \in LogKinds({"manual_entry"}) :
          update_log[i] = Logged("manual_entry", update_call.row_number, update_call.workspace_id)

\* at most max_retries attempts; every attempt that failed on a locked file,
\* except the last allowed one, is followed by the warning and the prompt
\* before the next attempt; the last one is followed by the manual-entry line
BoundedPromptedRetries ==
    /\ Cardinality(WriteAttempts) <= max_retries
    /\ \A i \in LogKinds({"locked"}) :
          LET n == Cardinality({j \in LogKinds({"locked"}) : j <= i}) IN
          IF n < max_retries
            THEN /\ Len(update_log) > i => update_log[i + 1].kind = "retry_warning"
                 /\ Len(update_log) > i + 1 => update_log[i + 2].kind \in {"prompt", "eof"}
                 /\ upc = "try" => Len(update_log) > i + 1
            ELSE /\ Len(update_log) = i + 1
                 /\ update_log[i + 1] = Logged("manual_entry", update_call.row_number,
                                                update_call.workspace_id)
    /\ \A i \in WriteAttempts :
          i > 1 => update_log[i - 1].kind = "prompt"

OnlyContention == LogKinds({"error", "eof"}) = {}

C30_OnlyOneCellChanges ==
    [][/\ Len(csv_file') = Len(csv_file)
       /\ \A i \in 1..Len(csv_file) :
             i # update_call.row_number => csv_file'[i] = csv_file[i]]_vars

(***************************************************************************)
(* Properties of the collector (main.py).                                  *)
(***************************************************************************)
PresentUrl(u) == u \notin {NAN, NONE, ""}

\* the last call was an upsert that returned
Upserted == last.op \in {"update", "process_row"}

LastUrl == Get(last.new_row, URL_COL)

\* the last call found a row with its URL in the store
HitExisting ==
    /\ Truthy(LastUrl)
    /\ URL_COL \in Elems(last.before.cols)
    /\ MatchingIndices(last.before, LastUrl) # {}

\* C5: from a store with no two rows sharing a source URL, every sequence of
\* update_output_data calls leaves at most one row per non-empty source URL,
\* in memory and in the saved file.
C5_AtMostOneRowPerUrl ==
    /\ \A i, j \in 1..Len(output_df.rows) :
          (i # j /\ PresentUrl(output_df.rows[i][URL_COL]))
             => output_df.rows[i][URL_COL] # output_df.rows[j][URL_COL]
    /\ \A i, j \in 1..Len(output_file.rows) :
          (i # j /\ PresentUrl(output_file.rows[i][URL_COL]))
             => output_file.rows[i][URL_COL] # output_file.rows[j][URL_COL]

\* an upsert whose URL was already in the store
C5_UpsertOnExistingUrl == Upserted /\ HitExisting /\ Len(output_df.rows) >= 2

\* the store has exactly one row with the URL of new_row, and that row has
\* the field values of new_row
OneRowWithFields(df, new_row) ==
    LET url == Get(new_row, URL_COL)
        rows == {i \in 1..Len(df.rows) :
                    df.rows[i][URL_COL] = url
                    \/ (~Truthy(url) /\ ~PresentUrl(df.rows[i][URL_COL]))}
    IN /\ Cardinality(rows) = 1
       /\ \A i \in rows : \A c \in DOMAIN new_row : df.rows[i][c] = new_row[c]

\* C6 as claimed: for every store, every key (absent and empty ones too) and
\* every field mapping, a second update_output_data with the same arguments
\* leaves the store as the first left it, with exactly one row for the key.
C6_IdempotentForEveryKey ==
    last.op = "update" =>
        /\ update_output_data(output_df, last.new_row) = output_df
        /\ OneRowWithFields(output_df, last.new_row)

\* C6 as amended: the same for every non-empty key.
C6_IdempotentForPresentKey ==
    (last.op = "update" /\ Truthy(LastUrl)) =>
        /\ update_output_data(output_df, last.new_row) = output_df
        /\ to_csv(update_output_data(output_df, last.new_row)) = output_file
        /\ OneRowWithFields(output_df, last.new_row)

\* an update with a non-empty key that found its row among several
C6_KeyedUpdateApplied ==
    last.op = "update" /\ HitExisting /\ Len(output_df.rows) >= 2

\* msg is the last "; "-separated part of status
Carries(status, msg) ==
    \E prefix \in {"", "Success; ", "Success; " \o PDF_STATUS \o "; "} : status = prefix \o msg

\* C7: a process_row invocation that returned has upserted exactly one record
\* for its row and saved the store; when the URL was invalid, the access
\* failed or the browser work raised, the record's Status carries the failure
\* message.
C7_RowAlwaysPersisted ==
    last.op = "process_row" =>
        LET idx == IF HitExisting THEN Min(MatchingIndices(last.before, LastUrl))
                                  ELSE Len(last.before.rows) + 1
        IN /\ last.upserts = 1
           /\ Len(output_df.rows) = Len(last.before.rows) + (IF HitExisting THEN 0 ELSE 1)
           /\ \A i \in 1..Len(last.before.rows) :
                 i # idx => output_df.rows[i] = last.before.rows[i]
           /\ output_df.rows[idx][URL_COL] = LastUrl
           /\ last.failure # NONE => Carries(output_df.rows[idx]["Status"], last.failure)
           /\ output_file = to_csv(output_df)

\* a process_row invocation whose browser work raised
C7_FailedRowPersisted == last.op = "process_row" /\ last.failure = CONVERT_ERROR

\* list a is the beginning of list b
IsPrefix(a, b) == Len(a) <= Len(b) /\ SubSeq(b, 1, Len(a)) = a

====
